---- MODULE Spec2Model ----
(***************************************************************************)
(* Model of src/rich_text_editor/index.js, the RichTextEditor module of    *)
(* the editor: the toolbar element, the ordered list of action             *)
(* descriptors, and the enable/disable life cycle with the editor model's  *)
(* events and the deferred position update.                                *)
(*                                                                         *)
(* DOM elements, action objects and RTE instances are references, modelled *)
(* as integers (0 is JavaScript's undefined).  Every handler runs to       *)
(* completion (one action per handler): the browser's event loop is single *)
(* threaded, so the only interleaving is between handlers, timers and      *)
(* events.  Calls that would throw a TypeError before changing anything    *)
(* (a method called before init, udpatePosition without config.em,         *)
(* rte.disable() on something that is no built-in RTE) are guarded out.    *)
(***************************************************************************)
EXTENDS Integers, Sequences, FiniteSets

\* ---------------------------------------------------------------- bounds

\* The action list is unbounded in the code; add is capped at this length.
MaxActions == 2
\* Built-in RTE instances created by enable (the global one not counted).
MaxRtes == 1
\* Deferred position updates (setTimeout callbacks) pending at one time.
MaxTimers == 1

\* ---------------------------------------------------------------- inputs

Undefined == 0

\* Action objects the host can pass to add (references).
Objs == {1, 2}
\* Action names (strings, as add and get document).
Names == {"bold", "link"}
NoName == "undefined"

\* The host's component views: view.el and view.getChildrenContainer().
Views == {[el |-> 10, children |-> 11]}

\* What a custom RTE's enable may return (host objects, or nothing).
CustomResults == {-1, Undefined}

\* What canvas.getTargetToElementDim may return.
PosInputs ==
  [top : {-1, 1, 2}, canvasTop : {1}, elementTop : {4}, elementHeight : {2},
   left : {3}]
NoPosInput ==
  [top |-> 0, canvasTop |-> 0, elementTop |-> 0, elementHeight |-> 0, left |-> 0]

\* The events udpatePosition listens to.
PosEvents == {"change:canvasOffset", "canvasScroll"}

\* A CSS length: the number and its unit.  "" with 0 is the number 0 that
\* disable assigns; "unset" is a property never assigned.
Px(n) == [n |-> n, un |-> "px"]
Zero == [n |-> 0, un |-> ""]
Unset == [n |-> 0, un |-> "unset"]

VARIABLES
  inited,       \* init has run
  config,       \* config.em (present or not), config.adjustToolbar
  customRte,    \* this.customRte is set
  toolbar,      \* the toolbar element
  style,        \* toolbar.style: display, top, left, pointerEvents
  attached,     \* toolbar was appended to the canvas tools element
  nextEl,       \* next element document.createElement returns
  actions,      \* the array behind globalRte.getActions()
  objName,      \* the name field of each action object
  lastEl,       \* lastEl
  rtes,         \* the built-in RTE instances; rtes[1] is globalRte
  timers,       \* pending setTimeout(udpatePosition, 0) callbacks
  listeners,    \* registrations of udpatePosition on the editor model, per event
  lastToggle,   \* the most recent of enable and disable
  lastOp        \* the operation that ran last, what it did and returned

vars == <<inited, config, customRte, toolbar, style, attached, nextEl, actions,
          objName, lastEl, rtes, timers, listeners, lastToggle, lastOp>>

globalRte == 1

NoCall == [el |-> Undefined, rte |-> Undefined, res |-> Undefined]

NoTrig == [ev |-> "", el |-> Undefined, rte |-> Undefined]

\* What an operation did: its name argument; its object argument (the action
\* of add, the rte of enable and disable); what it returned; the calls it
\* made, in order; its call to the editor implementation (the element and rte
\* given and the result); the event it triggered on the editor model; the
\* position it was given; the number of position updates it ran.
Op(op, arg, obj, ret, effects, call, trig, pos, updates) ==
  [op |-> op, arg |-> arg, obj |-> obj, ret |-> ret, effects |-> effects,
   call |-> call, trig |-> trig, pos |-> pos, updates |-> updates]

Quiet(op, arg, ret) ==
  Op(op, arg, Undefined, ret, <<>>, NoCall, NoTrig, NoPosInput, 0)

Init ==
  /\ inited = FALSE
  /\ config = [em |-> FALSE, adjustToolbar |-> FALSE]
  /\ customRte = FALSE
  /\ toolbar = Undefined
  /\ style = [display |-> "", top |-> Unset, left |-> Unset, pointerEvents |-> ""]
  /\ attached = FALSE
  /\ nextEl = 1
  /\ actions = <<>>
  /\ objName = [o \in Objs |-> NoName]
  /\ lastEl = Undefined
  /\ rtes = <<>>
  /\ timers = 0
  /\ listeners = [e \in PosEvents |-> 0]
  /\ lastToggle = "none"
  /\ lastOp = Quiet("new", "", Undefined)

\* ------------------------------------------------------------ built-in RTE

\* Variant: the RTE is given its own element as action bar container.
initRteOwn(el, tb) == [el |-> el, actionbarContainer |-> el, enabled |-> FALSE]

\* new RichTextEditor({el, actions, actionbarContainer, ...})
initRte(el, tb) == [el |-> el, actionbarContainer |-> tb, enabled |-> FALSE]

\* rte.getActions(): every instance is given the same array.
getActions(r) == actions

\* rte.enable(): returns the instance.
rteEnable(r) == [r EXCEPT !.enabled = TRUE]

\* rte.disable()
rteDisable(r) == [r EXCEPT !.enabled = FALSE]

\* -------------------------------------------------------------------- init

init ==
  /\ ~inited
  /\ \E em \in BOOLEAN, adj \in BOOLEAN, acts \in {<<>>, <<1>>} :
       /\ config' = [em |-> em, adjustToolbar |-> adj]
       /\ actions' = acts
       /\ objName' = [o \in Objs |->
                        IF \E i \in DOMAIN acts : acts[i] = o THEN "bold" ELSE NoName]
  /\ toolbar' = nextEl
  /\ rtes' = <<initRte(nextEl + 1, nextEl)>>
  /\ nextEl' = nextEl + 2
  /\ inited' = TRUE
  /\ lastOp' = Quiet("init", "", Undefined)
  /\ UNCHANGED <<customRte, style, attached, lastEl, timers, listeners, lastToggle>>

\* The host installs or removes a custom RTE (the public field customRte),
\* while no element has been edited yet.
setCustomRte ==
  /\ lastToggle = "none"
  /\ customRte' = ~customRte
  /\ lastOp' = Quiet("setCustomRte", "", Undefined)
  /\ UNCHANGED <<inited, config, toolbar, style, attached, nextEl, actions,
                 objName, lastEl, rtes, timers, listeners, lastToggle>>

postRender ==
  /\ inited
  /\ style' = [style EXCEPT !.pointerEvents = "all"]
  /\ attached' = TRUE
  /\ lastOp' = Quiet("postRender", "", Undefined)
  /\ UNCHANGED <<inited, config, customRte, toolbar, nextEl, actions, objName,
                 lastEl, rtes, timers, listeners, lastToggle>>

\* ------------------------------------------------------------ action list

\* Variant: the action is put in front (unshift for push).
pushFront(list, o) == <<o>> \o list

\* globalRte.getActions().push(action)
push(list, o) == Append(list, o)

\* Variant: an action replaces the actions that have its name.
addUnique ==
  /\ inited
  /\ Len(getActions(globalRte)) < MaxActions
  /\ \E name \in Names, o \in Objs :
       /\ objName' = [objName EXCEPT ![o] = name]
       /\ actions' =
            push(SelectSeq(getActions(globalRte),
                           LAMBDA x : x # o /\ objName[x] # name), o)
       /\ lastOp' = Op("add", name, o, Undefined, <<"push", "addAction">>,
                       NoCall, NoTrig, NoPosInput, 0)
  /\ UNCHANGED <<inited, config, customRte, toolbar, style, attached, nextEl,
                 lastEl, rtes, timers, listeners, lastToggle>>

add ==
  /\ inited
  /\ Len(getActions(globalRte)) < MaxActions
  /\ \E name \in Names, o \in Objs :
       /\ objName' = [objName EXCEPT ![o] = name]
       /\ actions' = push(getActions(globalRte), o)
       /\ lastOp' = Op("add", name, o, Undefined, <<"push", "addAction">>,
                       NoCall, NoTrig, NoPosInput, 0)
  /\ UNCHANGED <<inited, config, customRte, toolbar, style, attached, nextEl,
                 lastEl, rtes, timers, listeners, lastToggle>>

\* Variant: the scan stops at the first match.
RECURSIVE forEachFirst(_, _, _)
forEachFirst(list, name, result) ==
  IF list = <<>> THEN result
  ELSE IF objName[Head(list)] = name THEN Head(list)
  ELSE forEachFirst(Tail(list), name, result)

\* Variant: the test is an assignment (=), true of every action.
RECURSIVE forEachAssign(_, _, _)
forEachAssign(list, name, result) ==
  IF list = <<>> THEN result
  ELSE forEachAssign(Tail(list), name, Head(list))

\* The forEach of get: every action is visited; a match overwrites result.
RECURSIVE forEach(_, _, _)
forEach(list, name, result) ==
  IF list = <<>> THEN result
  ELSE forEach(Tail(list), name,
               IF objName[Head(list)] = name THEN Head(list) ELSE result)

get ==
  /\ inited
  /\ \E name \in Names :
       lastOp' = Quiet("get", name, forEach(getActions(globalRte), name, Undefined))
  /\ UNCHANGED <<inited, config, customRte, toolbar, style, attached, nextEl,
                 actions, objName, lastEl, rtes, timers, listeners, lastToggle>>

getAll ==
  /\ inited
  /\ lastOp' = Quiet("getAll", "", Undefined)
  /\ UNCHANGED <<inited, config, customRte, toolbar, style, attached, nextEl,
                 actions, objName, lastEl, rtes, timers, listeners, lastToggle>>

getToolbarEl ==
  /\ inited
  /\ lastOp' = Quiet("getToolbarEl", "", toolbar)
  /\ UNCHANGED <<inited, config, customRte, toolbar, style, attached, nextEl,
                 actions, objName, lastEl, rtes, timers, listeners, lastToggle>>

\* --------------------------------------------------------------- position

\* Variant: the toolbar moves down only past the canvas edge (< for <=).
positionedLt(pos) ==
  [style EXCEPT
     !.top = Px(IF config.adjustToolbar /\ pos.top < pos.canvasTop
                THEN pos.elementTop + pos.elementHeight
                ELSE pos.top),
     !.left = Px(pos.left)]

\* The toolbar's style after udpatePosition was given pos.
positioned(pos) ==
  [style EXCEPT
     !.top = Px(IF config.adjustToolbar /\ pos.top <= pos.canvasTop
                THEN pos.elementTop + pos.elementHeight
                ELSE pos.top),
     !.left = Px(pos.left)]

\* A call of the method itself.
udpatePosition ==
  /\ inited
  /\ config.em
  /\ \E pos \in PosInputs :
       /\ style' = positioned(pos)
       /\ lastOp' = Op("udpatePosition", "", Undefined, Undefined, <<>>, NoCall,
                       NoTrig, pos, 1)
  /\ UNCHANGED <<inited, config, customRte, toolbar, attached, nextEl, actions,
                 objName, lastEl, rtes, timers, listeners, lastToggle>>

\* The callback enable deferred with setTimeout(..., 0) runs.
timeout ==
  /\ timers > 0
  /\ timers' = timers - 1
  /\ \E pos \in PosInputs :
       /\ style' = positioned(pos)
       /\ lastOp' = Op("timeout", "", Undefined, Undefined, <<>>, NoCall,
                       NoTrig, pos, 1)
  /\ UNCHANGED <<inited, config, customRte, toolbar, attached, nextEl, actions,
                 objName, lastEl, rtes, listeners, lastToggle>>

\* The editor model triggers 'change:canvasOffset' or 'canvasScroll': every
\* registration of udpatePosition on that event runs.
emEvent ==
  /\ inited
  /\ config.em
  /\ \E e \in PosEvents :
       IF listeners[e] = 0
       THEN /\ lastOp' = Quiet("emEvent", e, Undefined)
            /\ UNCHANGED style
       ELSE \E pos \in PosInputs :
              /\ style' = positioned(pos)
              /\ lastOp' = Op("emEvent", e, Undefined, Undefined, <<>>, NoCall,
                              NoTrig, pos, listeners[e])
  /\ UNCHANGED <<inited, config, customRte, toolbar, attached, nextEl, actions,
                 objName, lastEl, rtes, timers, listeners, lastToggle>>

\* --------------------------------------------------------- enable, disable

\* em.off(event, this.udpatePosition, this): every registration of the
\* callback on the two events is removed.
emOff(l) == [e \in PosEvents |-> 0]

\* em.on(event, this.udpatePosition, this): one more registration on each.
emOn(l) == [e \in PosEvents |-> l[e] + 1]

\* Variant: the callback is registered without removing the earlier one.
rebindNoOff(l) == emOn(l)

\* The off and on of enable, on 'change:canvasOffset canvasScroll'.
rebind(l) == emOn(emOff(l))

\* Variant: the built-in RTE is used whatever customRte is.
dispatchNever == FALSE

\* customRte ? customRte.<method>(el, rte) : <the built-in RTE>
dispatchCustom == customRte

\* The toolbar's style after enable showed it.
shown == [style EXCEPT !.display = ""]

\* Variant: disable resets the position and leaves the toolbar displayed.
hiddenNoDisplay == [style EXCEPT !.top = Zero, !.left = Zero]

\* The toolbar's style after disable hid it.
hidden == [style EXCEPT !.display = "none", !.top = Zero, !.left = Zero]

\* What enable does when an editor model is present, in order.
enableEm == <<"setTimeout", "em.off", "em.on", "em.trigger">>

enable ==
  /\ inited
  /\ \E view \in Views, rte \in CustomResults :
       /\ lastEl' = view.el
       /\ style' = shown
       /\ lastToggle' = "enable"
       /\ IF config.em
          THEN /\ timers < MaxTimers
               /\ timers' = timers + 1
               /\ listeners' = rebind(listeners)
          ELSE UNCHANGED <<timers, listeners>>
       /\ IF dispatchCustom
          THEN \E res \in CustomResults :
                 /\ UNCHANGED rtes
                 /\ lastOp' =
                      Op("enable", "", rte, res,
                         <<"show", "customRte.enable">>
                           \o (IF config.em THEN enableEm ELSE <<>>),
                         [el |-> view.children, rte |-> rte, res |-> res],
                         IF config.em
                         THEN [ev |-> "rte:enable", el |-> view.el, rte |-> res]
                         ELSE NoTrig,
                         NoPosInput, 0)
          ELSE /\ Len(rtes) < MaxRtes + 1
               /\ rtes' = Append(rtes, rteEnable(initRte(view.children, toolbar)))
               /\ lastOp' =
                    Op("enable", "", rte, Len(rtes) + 1,
                       <<"show", "initRte", "rte.enable">>
                         \o (IF config.em THEN enableEm ELSE <<>>),
                       [el |-> view.children, rte |-> Len(rtes) + 1,
                        res |-> Len(rtes) + 1],
                       IF config.em
                       THEN [ev |-> "rte:enable", el |-> view.el,
                             rte |-> Len(rtes) + 1]
                       ELSE NoTrig,
                       NoPosInput, 0)
  /\ UNCHANGED <<inited, config, customRte, toolbar, attached, nextEl, actions,
                 objName>>

disable ==
  /\ inited
  /\ \E view \in Views :
       /\ IF dispatchCustom
          THEN \E rte \in CustomResults \cup (1 .. Len(rtes)) :
                 /\ UNCHANGED rtes
                 /\ lastOp' =
                      Op("disable", "", rte, Undefined,
                         <<"customRte.disable", "hide">>
                           \o (IF config.em THEN <<"em.trigger">> ELSE <<>>),
                         [el |-> view.children, rte |-> rte, res |-> Undefined],
                         IF config.em
                         THEN [ev |-> "rte:disable", el |-> view.el, rte |-> rte]
                         ELSE NoTrig,
                         NoPosInput, 0)
          ELSE \E rte \in 1 .. Len(rtes) :
                 /\ rtes' = [rtes EXCEPT ![rte] = rteDisable(@)]
                 /\ lastOp' =
                      Op("disable", "", rte, Undefined,
                         <<"rte.disable", "hide">>
                           \o (IF config.em THEN <<"em.trigger">> ELSE <<>>),
                         [el |-> view.children, rte |-> rte, res |-> Undefined],
                         IF config.em
                         THEN [ev |-> "rte:disable", el |-> view.el, rte |-> rte]
                         ELSE NoTrig,
                         NoPosInput, 0)
  /\ style' = hidden
  /\ lastToggle' = "disable"
  /\ UNCHANGED <<inited, config, customRte, toolbar, attached, nextEl, actions,
                 objName, lastEl, timers, listeners>>

\* ------------------------------------------------------------------- spec

Next ==
  \/ init
  \/ setCustomRte
  \/ postRender
  \/ add
  \/ get
  \/ getAll
  \/ getToolbarEl
  \/ udpatePosition
  \/ timeout
  \/ emEvent
  \/ enable
  \/ disable

Spec == Init /\ [][Next]_vars

\* ----------------------------------------------------------------- claims

Range(list) == {list[i] : i \in DOMAIN list}

\* The array getAll() returns.
getAllList == getActions(globalRte)

\* s is t with some entries left out: the entries of s are in t, in s's order.
RECURSIVE IsSubseq(_, _)
IsSubseq(s, t) ==
  IF s = <<>> THEN TRUE
  ELSE IF t = <<>> THEN FALSE
  ELSE IF Head(s) = Head(t) THEN IsSubseq(Tail(s), Tail(t))
  ELSE IsSubseq(s, Tail(t))

Count(seq, x) == Cardinality({i \in DOMAIN seq : seq[i] = x})

\* The place of the first x in seq (0 when it is not there).
IndexOf(seq, x) ==
  IF \E i \in DOMAIN seq : seq[i] = x
  THEN CHOOSE i \in DOMAIN seq : seq[i] = x /\ \A j \in 1 .. (i - 1) : seq[j] # x
  ELSE 0

\* C1: every add(name, action) leaves the action, its name set to the given
\* name, as the last entry of getAll(), after all the entries that were there,
\* which are kept as they were: the list grows by exactly one, also when the
\* name is already that of an entry.
C1_AddAppends ==
  [][lastOp'.op = "add" =>
       /\ Len(getAllList') = Len(getAllList) + 1
       /\ SubSeq(getAllList', 1, Len(getAllList)) = getAllList
       /\ getAllList'[Len(getAllList')] = lastOp'.obj
       /\ objName'[lastOp'.obj] = lastOp'.arg]_vars

\* An add of a name that another action of the list has already.
C1_Witness ==
  /\ lastOp.op = "add"
  /\ Len(getAllList) = 2
  /\ getAllList[1] # getAllList[2]
  /\ objName[getAllList[1]] = objName[getAllList[2]]

\* C2: get(name) returns an action of the list whose name is the given name
\* when there is one, and undefined when there is none.
C2_GetResult ==
  lastOp.op = "get" =>
    IF \E i \in DOMAIN getAllList : objName[getAllList[i]] = lastOp.arg
    THEN /\ lastOp.ret \in Range(getAllList)
         /\ objName[lastOp.ret] = lastOp.arg
    ELSE lastOp.ret = Undefined

\* C2: the get of C2_GetResult, and get changes neither the list nor an action.
C2_Get ==
  /\ []C2_GetResult
  /\ [][lastOp'.op = "get" =>
          /\ getAllList' = getAllList
          /\ objName' = objName]_vars

\* A get of a name no action has, on a list that is not empty.
C2_Witness ==
  /\ lastOp.op = "get"
  /\ getAllList # <<>>
  /\ lastOp.ret = Undefined
  /\ \A i \in DOMAIN getAllList : objName[getAllList[i]] # lastOp.arg

\* C3: after init no operation removes an action from the list or changes
\* the order of the actions in it: the list before a step is the list after
\* it with some entries left out.
C3_NeverRemoved ==
  [][inited => IsSubseq(getAllList, getAllList')]_vars

\* A list of two actions that has been through an enable and a disable.
C3_Witness ==
  /\ Len(getAllList) = 2
  /\ lastOp.op = "disable"
  /\ Len(rtes) > 1

\* C4 (state): every built-in RTE instance has the toolbar element as action
\* bar container, and getToolbarEl() returns the toolbar element.
C4_SameElement ==
  inited =>
    /\ toolbar # Undefined
    /\ \A i \in DOMAIN rtes : rtes[i].actionbarContainer = toolbar
    /\ lastOp.op = "getToolbarEl" => lastOp.ret = toolbar

\* C4: the toolbar element is the one init created, whatever runs after init,
\* and it is what getToolbarEl() returns and what every built-in RTE instance
\* (the global one and the one of each enable) has as action bar container.
C4_ToolbarOnce ==
  /\ []C4_SameElement
  /\ [][inited => toolbar' = toolbar]_vars

\* getToolbarEl() after an enable has created a second built-in RTE.
C4_Witness ==
  /\ lastOp.op = "getToolbarEl"
  /\ Len(rtes) > 1
  /\ attached
  /\ lastToggle = "disable"

\* C5: enable and disable use one editor implementation.  With customRte set,
\* enable calls customRte.enable(el, rte) on the view's children container and
\* the rte it was given and returns the result, disable calls
\* customRte.disable(el, rte), and the built-in RTE instances are left as they
\* are.  Without it, enable creates one built-in RTE on the children
\* container, enabled, and returns it, and disable disables the rte it was
\* given and no other.
C5_Dispatch ==
  [][/\ (lastOp'.op = "enable" /\ customRte) =>
          /\ lastOp'.effects[2] = "customRte.enable"
          /\ Count(lastOp'.effects, "initRte") = 0
          /\ Count(lastOp'.effects, "rte.enable") = 0
          /\ \E v \in Views : lastOp'.call.el = v.children
          /\ lastOp'.call.rte = lastOp'.obj
          /\ lastOp'.ret = lastOp'.call.res
          /\ rtes' = rtes
     /\ (lastOp'.op = "disable" /\ customRte) =>
          /\ lastOp'.effects[1] = "customRte.disable"
          /\ Count(lastOp'.effects, "rte.disable") = 0
          /\ \E v \in Views : lastOp'.call.el = v.children
          /\ lastOp'.call.rte = lastOp'.obj
          /\ rtes' = rtes
     /\ (lastOp'.op = "enable" /\ ~customRte) =>
          /\ Count(lastOp'.effects, "customRte.enable") = 0
          /\ Len(rtes') = Len(rtes) + 1
          /\ SubSeq(rtes', 1, Len(rtes)) = rtes
          /\ \E v \in Views : rtes'[Len(rtes')].el = v.children
          /\ rtes'[Len(rtes')].enabled
          /\ lastOp'.ret = Len(rtes')
     /\ (lastOp'.op = "disable" /\ ~customRte) =>
          /\ Count(lastOp'.effects, "customRte.disable") = 0
          /\ lastOp'.call.rte = lastOp'.obj
          /\ lastOp'.obj \in DOMAIN rtes
          /\ ~rtes'[lastOp'.obj].enabled
          /\ \A i \in DOMAIN rtes : i # lastOp'.obj => rtes'[i] = rtes[i]
          /\ Len(rtes') = Len(rtes)]_vars

\* An enable with a custom RTE that returned an instance.
C5_Witness ==
  /\ lastOp.op = "enable"
  /\ customRte
  /\ lastOp.ret = -1
  /\ lastOp.obj = Undefined

\* C6: when several actions of the list have the given name, get(name)
\* returns the last of them in the list, the one added last.
C6_GetLatest ==
  lastOp.op = "get" =>
    \A i \in DOMAIN getAllList :
      (/\ objName[getAllList[i]] = lastOp.arg
       /\ \A j \in DOMAIN getAllList : j > i => objName[getAllList[j]] # lastOp.arg)
      => lastOp.ret = getAllList[i]

\* A get of a name two different actions have: the second is returned.
C6_Witness ==
  /\ lastOp.op = "get"
  /\ Len(getAllList) = 2
  /\ getAllList[1] # getAllList[2]
  /\ objName[getAllList[1]] = lastOp.arg
  /\ objName[getAllList[2]] = lastOp.arg
  /\ lastOp.ret = getAllList[2]

\* The operations that run udpatePosition once.
IsPositionUpdate ==
  /\ lastOp.op \in {"udpatePosition", "timeout", "emEvent"}
  /\ lastOp.updates = 1

\* C7: udpatePosition sets left to pos.left and top to pos.top, in px; with
\* adjustToolbar on and pos.top <= pos.canvasTop the top is
\* pos.elementTop + pos.elementHeight instead; with adjustToolbar off the top
\* is pos.top also then.
C7_Position ==
  IsPositionUpdate =>
    /\ style.left = Px(lastOp.pos.left)
    /\ (config.adjustToolbar /\ lastOp.pos.top <= lastOp.pos.canvasTop)
         => style.top = Px(lastOp.pos.elementTop + lastOp.pos.elementHeight)
    /\ (config.adjustToolbar /\ lastOp.pos.top > lastOp.pos.canvasTop)
         => style.top = Px(lastOp.pos.top)
    /\ ~config.adjustToolbar => style.top = Px(lastOp.pos.top)

\* A position update at the canvas edge (pos.top = pos.canvasTop) with
\* adjustToolbar on.
C7_Witness ==
  /\ lastOp.op = "udpatePosition"
  /\ config.adjustToolbar
  /\ lastOp.pos.top = lastOp.pos.canvasTop
  /\ style.top = Px(6)

\* C8: the toolbar is displayed (display '') when the most recent of the
\* enable and disable calls is an enable, and hidden (display 'none') when it
\* is a disable.
C8_Display ==
  /\ lastToggle = "enable" => style.display = ""
  /\ lastToggle = "disable" => style.display = "none"

\* A disable after an enable, with a custom RTE and an editor model, and other
\* operations since.
C8_Witness ==
  /\ lastToggle = "disable"
  /\ style.display = "none"
  /\ customRte
  /\ config.em
  /\ listeners["canvasScroll"] = 1
  /\ lastOp.op = "postRender"

\* C9: from the return of disable to the next enable the toolbar's top and
\* left stay 0: the callback enable deferred and the events of the editor
\* model do not move the toolbar that disable has hidden and put at 0.
C9_RestsWhileHidden ==
  [][(/\ lastToggle = "disable"
      /\ style.top = Zero
      /\ style.left = Zero
      /\ lastOp'.op \in {"timeout", "emEvent"})
     => (style'.top = Zero /\ style'.left = Zero)]_vars

\* C10 (state): udpatePosition is registered at most once on each event and
\* an event runs at most one position update; with an editor model, enable
\* triggers 'rte:enable' once, after the RTE was enabled, and disable triggers
\* 'rte:disable' once, after the toolbar was hidden; without one, no listener
\* is registered, no update is pending and enable and disable trigger nothing.
C10_Events ==
  /\ \A e \in PosEvents : listeners[e] <= 1
  /\ lastOp.op = "emEvent" =>
       /\ lastOp.updates = listeners[lastOp.arg]
       /\ lastOp.updates <= 1
  /\ (lastOp.op = "enable" /\ config.em) =>
       /\ Count(lastOp.effects, "em.trigger") = 1
       /\ lastOp.trig.ev = "rte:enable"
       /\ lastOp.trig.rte = lastOp.ret
       /\ IndexOf(lastOp.effects, "em.trigger")
            > IndexOf(lastOp.effects,
                      IF customRte THEN "customRte.enable" ELSE "rte.enable")
       /\ IndexOf(lastOp.effects,
                  IF customRte THEN "customRte.enable" ELSE "rte.enable") > 0
       /\ \A e \in PosEvents : listeners[e] = 1
  /\ (lastOp.op = "disable" /\ config.em) =>
       /\ Count(lastOp.effects, "em.trigger") = 1
       /\ lastOp.trig.ev = "rte:disable"
       /\ IndexOf(lastOp.effects, "em.trigger") > IndexOf(lastOp.effects, "hide")
       /\ IndexOf(lastOp.effects, "hide") > 0
  /\ ~config.em =>
       /\ \A e \in PosEvents : listeners[e] = 0
       /\ timers = 0
       /\ lastOp.op \in {"enable", "disable"} =>
            /\ lastOp.trig = NoTrig
            /\ Count(lastOp.effects, "em.trigger") = 0
            /\ Count(lastOp.effects, "em.on") = 0
            /\ Count(lastOp.effects, "setTimeout") = 0

\* An event that runs one position update while the update enable deferred
\* is still pending.
C10_Witness ==
  /\ lastOp.op = "emEvent"
  /\ lastOp.updates = 1
  /\ lastToggle = "enable"
  /\ timers = 1
  /\ style.top = Px(2)
====
